---- MODULE Spec2Model ----
(***************************************************************************)
(* Meteorite Landings: the cleaning / classification pipeline of           *)
(* src/src/data_prep.py and the cached loader of src/src/streamlit_app.py. *)
(*                                                                         *)
(* Text is a sequence of one-character strings.  A table cell is a record  *)
(* [t, v, s]: t = "num" (a finite float, v in tenths), "inf", "ninf",      *)
(* "nan" (missing), "int" (an int64, v in units) or "text" (s the text).   *)
(* A table is a sequence of rows; a row carries its index label idx.       *)
(*                                                                         *)
(* calls, runs, first and reads record, since the last load_data.clear(),  *)
(* the calls of load_data(), the executions of its body, what the first    *)
(* call returned, and the sources the last execution read.                 *)
(***************************************************************************)
EXTENDS Integers, Sequences, FiniteSets, TLC

VARIABLES raw, pc, out,
          localExists, localContent, remoteContent,
          cache, ret, first, calls, runs, reads, rerunPending

cleanVars == <<raw, pc, out>>
loadVars == <<localExists, localContent, remoteContent,
              cache, ret, first, calls, runs, reads, rerunPending>>
vars == <<raw, pc, out, localExists, localContent, remoteContent,
          cache, ret, first, calls, runs, reads, rerunPending>>

----------------------------------------------------------------------------
(* Characters *)

UpperSeq == <<"A","B","C","D","E","F","G","H","I","J","K","L","M",
              "N","O","P","Q","R","S","T","U","V","W","X","Y","Z">>
LowerSeq == <<"a","b","c","d","e","f","g","h","i","j","k","l","m",
              "n","o","p","q","r","s","t","u","v","w","x","y","z">>
UpperLetters == {UpperSeq[i] : i \in DOMAIN UpperSeq}
LowerLetters == {LowerSeq[i] : i \in DOMAIN LowerSeq}
Digits == {"0","1","2","3","4","5","6","7","8","9"}
\* \w of the re module (ASCII part)
WordChars == UpperLetters \cup LowerLetters \cup Digits \cup {"_"}
\* the class [0-9./~\-\(\)] of stony_re
GradeChars == Digits \cup {".", "/", "~", "-", "(", ")"}
Alphabet == WordChars \cup GradeChars \cup {" ", ",", "+"}

\* case folding of the (?i) flag
LowerOf == [c \in Alphabet |->
              IF c \in UpperLetters
              THEN LowerSeq[CHOOSE i \in DOMAIN UpperSeq : UpperSeq[i] = c]
              ELSE c]

----------------------------------------------------------------------------
(* Cells *)

Num(tenths) == [t |-> "num", v |-> tenths, s |-> <<>>]
IntCell(n) == [t |-> "int", v |-> n, s |-> <<>>]
Text(chars) == [t |-> "text", v |-> 0, s |-> chars]
NaN == [t |-> "nan", v |-> 0, s |-> <<>>]
PosInf == [t |-> "inf", v |-> 0, s |-> <<>>]
NegInf == [t |-> "ninf", v |-> 0, s |-> <<>>]

\* tenths per unit of the fixed-point floats
Scale == 10

----------------------------------------------------------------------------
(* The three compiled patterns, as used by Series.str.contains (re.search) *)

W_pallasite == <<"p", "a", "l", "l", "a", "s", "i", "t", "e">>
W_mesosiderite == <<"m", "e", "s", "o", "s", "i", "d", "e", "r", "i", "t", "e">>
W_iron == <<"i", "r", "o", "n">>
W_hexahedrite == <<"h", "e", "x", "a", "h", "e", "d", "r", "i", "t", "e">>
W_octahedrite == <<"o", "c", "t", "a", "h", "e", "d", "r", "i", "t", "e">>
W_ataxite == <<"a", "t", "a", "x", "i", "t", "e">>
W_chondrite == <<"c", "h", "o", "n", "d", "r", "i", "t", "e">>
W_achondrite == <<"a", "c", "h", "o", "n", "d", "r", "i", "t", "e">>
W_lun == <<"l", "u", "n">>
W_mar == <<"m", "a", "r">>
W_acapulcoite == <<"a", "c", "a", "p", "u", "l", "c", "o", "i", "t", "e">>
W_lodra == <<"l", "o", "d", "r", "a">>
W_brachi == <<"b", "r", "a", "c", "h", "i">>
W_winona == <<"w", "i", "n", "o", "n", "a">>
W_breccia == <<"b", "r", "e", "c", "c", "i", "a">>
W_ureil == <<"u", "r", "e", "i", "l">>
W_eucrite == <<"e", "u", "c", "r", "i", "t", "e">>
W_diogen == <<"d", "i", "o", "g", "e", "n">>
W_howard == <<"h", "o", "w", "a", "r", "d">>
W_angrite == <<"a", "n", "g", "r", "i", "t", "e">>
W_aubrite == <<"a", "u", "b", "r", "i", "t", "e">>
W_ung == <<"-", "u", "n", "g">>

\* the literal w (lower case) matches s at position i, ignoring case
LiteralAt(s, i, w) ==
    /\ i >= 1
    /\ i + Len(w) - 1 <= Len(s)
    /\ \A k \in 1..Len(w) : LowerOf[s[i + k - 1]] = w[k]

IsWordAt(s, i) == i >= 1 /\ i <= Len(s) /\ s[i] \in WordChars

\* \b just before position i (i in 1..Len(s)+1)
WordBoundary(s, i) == IsWordAt(s, i - 1) # IsWordAt(s, i)

\* re.search of the bare literal w
Contains(s, w) == \E i \in 1..Len(s) : LiteralAt(s, i, w)

\* re.search of \b(w)\b
ContainsWord(s, w) ==
    \E i \in 1..Len(s) :
        /\ LiteralAt(s, i, w)
        /\ WordBoundary(s, i)
        /\ WordBoundary(s, i + Len(w))

\* [0-9./~\-\(\)]* from position i: the positions where the run may end
GradeRunEnds(s, i) ==
    {j \in i..(Len(s) + 1) : \A k \in i..(j - 1) : s[k] \in GradeChars}

\* ^ head [0-9./~\-\(\)]* for one head literal
HeadGrades(s, head) ==
    LiteralAt(s, 1, head) /\ GradeRunEnds(s, Len(head) + 1) # {}

StonyIronWords == {W_pallasite, W_mesosiderite}
IronWords == {W_iron, W_hexahedrite, W_octahedrite, W_ataxite}
\* C[IMVORKHBF]
CarbonaceousHeads == {<<"c", x>> : x \in {"i","m","v","o","r","k","h","b","f"}}
\* C[0-9]
CDigitHeads == {<<"c", d>> : d \in Digits}
\* OC, H, L{1,2}, E, R, K, F
LetterHeads == {<<"o","c">>, <<"h">>, <<"l">>, <<"l","l">>,
                <<"e">>, <<"r">>, <<"k">>, <<"f">>}
\* \b(H|L|LL|E|R|K|F|C|OC)\b
GroupWords == {<<"h">>, <<"l">>, <<"l","l">>, <<"e">>, <<"r">>, <<"k">>,
               <<"f">>, <<"c">>, <<"o","c">>}
StonyKeywords == {W_chondrite, W_achondrite, W_lun, W_mar, W_acapulcoite,
                  W_lodra, W_brachi, W_winona, W_breccia, W_ureil, W_eucrite,
                  W_diogen, W_howard, W_angrite, W_aubrite}

stony_iron_re(s) == \E w \in StonyIronWords : ContainsWord(s, w)

iron_re(s) == \E w \in IronWords : ContainsWord(s, w)

\* the ^( ... ) group of stony_re
StonyPrefix(s) ==
    \/ \E h \in CarbonaceousHeads : HeadGrades(s, h)
    \/ \E h \in CDigitHeads :
          /\ LiteralAt(s, 1, h)
          /\ \E j \in GradeRunEnds(s, 3) : (LiteralAt(s, j, W_ung) \/ TRUE)
    \/ (LiteralAt(s, 1, <<"c">>) /\ WordBoundary(s, 2))
    \/ (LiteralAt(s, 1, <<"o","c">>) /\ WordBoundary(s, 3))
    \/ \E h \in LetterHeads : HeadGrades(s, h)

stony_re(s) ==
    \/ StonyPrefix(s)
    \/ \E w \in GroupWords : ContainsWord(s, w)
    \/ \E w \in StonyKeywords : Contains(s, w)

----------------------------------------------------------------------------
(* add_category *)

fillna_discarded(cell, value) == cell

\* Series.fillna(value)
fillna(cell, value) == IF cell.t = "nan" THEN Text(value) ELSE cell

\* a row with one column set (added when absent)
SetCol(row, col, val) ==
    [f \in (DOMAIN row) \cup {col} |-> IF f = col THEN val ELSE row[f]]

add_category_overwrite_swapped(df) ==
    [i \in DOMAIN df |->
        LET s == fillna(df[i].recclass, <<>>).s
            c0 == "Other"
            c1 == IF stony_re(s) THEN "Stony" ELSE c0
            c2 == IF stony_iron_re(s) THEN "Stony-iron" ELSE c1
            c3 == IF iron_re(s) THEN "Iron" ELSE c2
        IN  SetCol(df[i], "category", c3)]

\* default Other, then the three masked assignments in source order
add_category(df) ==
    [i \in DOMAIN df |->
        LET s == fillna(df[i].recclass, <<>>).s
            c0 == "Other"
            c1 == IF stony_re(s) THEN "Stony" ELSE c0
            c2 == IF iron_re(s) THEN "Iron" ELSE c1
            c3 == IF stony_iron_re(s) THEN "Stony-iron" ELSE c2
        IN  SetCol(df[i], "category", c3)]

----------------------------------------------------------------------------
(* Classification inputs: texts assembled from catalogue fragments *)

P_Iron == <<"I", "r", "o", "n">>
P_octahedrite == <<"o", "c", "t", "a", "h", "e", "d", "r", "i", "t", "e">>
P_mesosiderite == <<"m", "e", "s", "o", "s", "i", "d", "e", "r", "i", "t", "e">>
P_Pallasite == <<"P", "a", "l", "l", "a", "s", "i", "t", "e">>
P_FusionCrust == <<"F", "u", "s", "i", "o", "n", " ", "c", "r", "u", "s", "t">>
P_Relict == <<"R", "e", "l", "i", "c", "t">>
P_Mar == <<"M", "a", "r">>

Pieces == {<<"H">>, <<"L">>, <<"C">>, <<"5">>, <<"/">>, <<" ">>, <<"x">>,
           P_Iron, P_octahedrite, P_mesosiderite, P_Pallasite,
           P_FusionCrust, P_Relict, P_Mar}

MaxPieces == 3

RECURSIVE Concats(_)
Concats(n) ==
    IF n = 0 THEN {<<>>}
    ELSE LET prev == Concats(n - 1)
         IN  prev \cup {p \o q : p \in prev, q \in Pieces}

RecclassCells == {NaN} \cup {Text(s) : s \in Concats(MaxPieces)}

----------------------------------------------------------------------------
(* pd.to_numeric(errors="coerce") *)

DigitSeq == <<"0","1","2","3","4","5","6","7","8","9">>
DigitVal(c) == (CHOOSE i \in DOMAIN DigitSeq : DigitSeq[i] = c) - 1

AllDigits(s) == \A i \in DOMAIN s : s[i] \in Digits

RECURSIVE DigitsValue(_)
DigitsValue(s) ==
    IF Len(s) = 0 THEN 0
    ELSE DigitsValue(SubSeq(s, 1, Len(s) - 1)) * 10 + DigitVal(s[Len(s)])

fold(s) == [i \in DOMAIN s |-> LowerOf[s[i]]]

\* an unsigned decimal literal, digits [ "." digits ], in tenths (finer
\* digits are below the resolution of the fixed-point floats); -1 when the
\* text is no such literal
UnsignedTenths(s) ==
    LET dots == {i \in DOMAIN s : s[i] = "."}
        dot == IF dots = {} THEN Len(s) + 1 ELSE CHOOSE i \in dots : TRUE
        ip == SubSeq(s, 1, dot - 1)
        fp == SubSeq(s, dot + 1, Len(s))
    IN  IF Cardinality(dots) <= 1 /\ Len(ip) + Len(fp) > 0 /\ AllDigits(ip) /\ AllDigits(fp)
        THEN DigitsValue(ip) * Scale + (IF Len(fp) = 0 THEN 0 ELSE DigitVal(fp[1]))
        ELSE -1

\* the float a text parses to, NaN when it does not parse
ParseFloat(s) ==
    LET neg == Len(s) > 0 /\ s[1] = "-"
        signed == Len(s) > 0 /\ s[1] \in {"-", "+"}
        body == IF signed THEN SubSeq(s, 2, Len(s)) ELSE s
    IN  IF fold(body) = <<"i","n","f">> THEN (IF neg THEN NegInf ELSE PosInf)
        ELSE IF UnsignedTenths(body) < 0 THEN NaN
        ELSE Num(IF neg THEN 0 - UnsignedTenths(body) ELSE UnsignedTenths(body))

to_numeric(cell) == IF cell.t = "text" THEN ParseFloat(cell.s) ELSE cell

\* df[col] = series
Assign(df, col, series) == [i \in DOMAIN df |-> [df[i] EXCEPT ![col] = series[i]]]

\* df[col] = pd.to_numeric(df[col], errors="coerce")
to_numeric_col(df, col) ==
    Assign(df, col, [i \in DOMAIN df |-> to_numeric(df[i][col])])

\* df[col] = df[col].fillna(value)
fillna_col(df, col, value) ==
    Assign(df, col, [i \in DOMAIN df |-> fillna(df[i][col], value)])

----------------------------------------------------------------------------
(* data_prep.py *)

T_Unclassified == <<"U","n","c","l","a","s","s","i","f","i","e","d">>
T_Unknown == <<"U","n","k","n","o","w","n">>

year_fixes == [k \in {57150} |-> 2010]

\* float comparisons; every comparison with NaN is False
IsFinite(cell) == cell.t = "num"
Gt(cell, n) == (cell.t = "num" /\ cell.v > n * Scale) \/ cell.t = "inf"
Ge(cell, n) == (cell.t = "num" /\ cell.v >= n * Scale) \/ cell.t = "inf"
Le(cell, n) == (cell.t = "num" /\ cell.v <= n * Scale) \/ cell.t = "ninf"
Eq(cell, n) == cell.t = "num" /\ cell.v = n * Scale

\* Series.between(lo, hi), inclusive="both"
between_exclusive(cell, lo, hi) == Gt(cell, lo) /\ cell.t = "num" /\ ~Ge(cell, hi)
between(cell, lo, hi) == Ge(cell, lo) /\ Le(cell, hi)

\* the chained assignment df[mask]["year"] = year, which writes to a copy
apply_year_fixes_chained(df) == df

apply_year_fixes(df) ==
    [i \in DOMAIN df |->
        IF \E k \in DOMAIN year_fixes : Eq(df[i].id, k)
        THEN [df[i] EXCEPT !.year =
                 Num(year_fixes[CHOOSE k \in DOMAIN year_fixes : Eq(df[i].id, k)] * Scale)]
        ELSE df[i]]

exclude_invalid_coordinates_lat_only(df) ==
    SelectSeq(df, LAMBDA r : between(r.reclat, -90, 90))

exclude_invalid_coordinates(df) ==
    SelectSeq(df, LAMBDA r : between(r.reclat, -90, 90) /\ between(r.reclong, -180, 180))

\* DataFrame.dropna(subset=...)
dropna(df, subset) == SelectSeq(df, LAMBDA r : \A c \in subset : r[c].t # "nan")

\* float -> int64: truncation toward zero
astype_int(cell) ==
    IntCell(IF cell.v >= 0 THEN cell.v \div Scale ELSE 0 - ((0 - cell.v) \div Scale))

\* df["year"] = df["year"].astype(int), which raises on a non-finite value
astype_int_year(df) ==
    IF \E i \in DOMAIN df : ~IsFinite(df[i].year)
    THEN [ok |-> FALSE, df |-> <<>>]
    ELSE [ok |-> TRUE,
          df |-> Assign(df, "year", [i \in DOMAIN df |-> astype_int(df[i].year)])]

\* the result of clean_df: ok = FALSE when it raises.  Column mass is "mass (g)".
clean_df(df) ==
    LET d1 == to_numeric_col(df, "id")
        d2 == to_numeric_col(d1, "year")
        d3 == to_numeric_col(d2, "mass")
        d4 == to_numeric_col(d3, "reclat")
        d5 == to_numeric_col(d4, "reclong")
        d6 == fillna_col(d5, "recclass", T_Unclassified)
        d7 == fillna_col(d6, "fall", T_Unknown)
        d8 == fillna_col(d7, "name", T_Unknown)
        d9 == dropna(d8, {"year", "mass", "reclat", "reclong"})
        d10 == SelectSeq(d9, LAMBDA r : Gt(r.mass, 0))
        d11 == apply_year_fixes(d10)
        d12 == exclude_invalid_coordinates(d11)
    IN  astype_int_year(add_category(d12))

----------------------------------------------------------------------------
(* streamlit_app.py: load_data behind st.cache_data *)

\* what a source holds: ok = FALSE when pd.read_csv raises on it
Unreadable == [ok |-> FALSE, df |-> <<>>]

NoResult == [has |-> FALSE, df |-> <<>>, source |-> "none"]
Result(df, source) == [has |-> TRUE, df |-> df, source |-> source]

\* the try block: pd.read_csv then clean_df; ok = FALSE when either raises
TryClean(content) ==
    IF content.ok THEN clean_df(content.df) ELSE [ok |-> FALSE, df |-> <<>>]

\* the return statements of load_data, with the sources the run has read
Returned(cleaned, source, touched) ==
    IF cleaned.ok
    THEN [value |-> Result(cleaned.df, source), reads |-> touched]
    ELSE [value |-> Result(<<>>, "Unavailable"), reads |-> touched]

\* a failed local read is retried on the remote URL
load_data_fallback(exists, local, remote) ==
    IF exists /\ local.ok
    THEN Returned(TryClean(local), "Local CSV", <<"LOCAL_FILE">>)
    ELSE Returned(TryClean(remote), "NASA Open Data",
                  IF exists THEN <<"LOCAL_FILE", "DATA_URL">> ELSE <<"DATA_URL">>)

\* one execution of load_data's body: the (df, source) it returns and the
\* sources it read
load_data(exists, local, remote) ==
    IF exists
    THEN Returned(TryClean(local), "Local CSV", <<"LOCAL_FILE">>)
    ELSE Returned(TryClean(remote), "NASA Open Data", <<"DATA_URL">>)

CacheHit_never == FALSE

\* st.cache_data finds a stored result for load_data()
CacheHit == cache.has

Executed(r) == [value |-> r.value, ran |-> TRUE, reads |-> r.reads]

\* load_data(): the decorated call
CachedCall ==
    IF CacheHit
    THEN [value |-> cache, ran |-> FALSE, reads |-> reads]
    ELSE Executed(load_data(localExists, localContent, remoteContent))

LoadIdle ==
    /\ localExists = FALSE
    /\ localContent = Unreadable
    /\ remoteContent = Unreadable
    /\ cache = NoResult
    /\ ret = NoResult
    /\ first = NoResult
    /\ calls = 0
    /\ runs = 0
    /\ reads = <<>>
    /\ rerunPending = FALSE

----------------------------------------------------------------------------
(* Specification of add_category alone *)

InitClassify ==
    /\ raw \in {<<[idx |-> 0, recclass |-> c]>> : c \in RecclassCells}
    /\ pc = "start"
    /\ out = <<>>
    /\ LoadIdle

AddCategory ==
    /\ pc = "start"
    /\ out' = add_category(raw)
    /\ pc' = "returned"
    /\ UNCHANGED raw
    /\ UNCHANGED loadVars

NextClassify == AddCategory

SpecClassify == InitClassify /\ [][NextClassify]_vars

----------------------------------------------------------------------------
(* Raw tables for clean_df: a valid catalogue row, varied one aspect at a *)
(* time, plus a few rows that vary two                                    *)

T_57150 == <<"5","7","1","5","0">>
T_abc == <<"a","b","c">>
T_inf == <<"i","n","f">>
T_2003 == <<"2","0","0","3">>
T_12_5 == <<"1","2",".","5">>
T_Aachen == <<"A","a","c","h","e","n">>
T_Fell == <<"F","e","l","l">>
T_H5 == <<"H","5">>

BaseRow == [id |-> Num(1 * Scale), name |-> Text(T_Aachen), recclass |-> Text(T_H5),
            mass |-> Num(21 * Scale), fall |-> Text(T_Fell), year |-> Num(1880 * Scale),
            reclat |-> Num(507), reclong |-> Num(60)]

KeyIds == {Num(57150 * Scale), Text(T_57150)}
OtherIds == {Text(T_abc), NaN}
YearCells == {Num(2099 * Scale), Num(20105), Text(T_2003), Text(T_inf), Text(T_abc), NaN}
LatCells == {Num(-90 * Scale), Num(90 * Scale), Num(95 * Scale), Num(-901),
             Text(T_12_5), Text(T_abc), NaN}
LongCells == {Num(-180 * Scale), Num(180 * Scale), Num(200 * Scale), Num(1801), NaN}
MassCells == {Num(-1 * Scale), Num(0), Num(5), Text(T_abc), PosInf, NaN}
ClassCells == {NaN, Text(P_Iron), Text(P_FusionCrust)}

RawRows ==
    {BaseRow}
    \cup {[BaseRow EXCEPT !.year = y] : y \in YearCells}
    \cup {[BaseRow EXCEPT !.id = i] : i \in KeyIds \cup OtherIds}
    \cup {[BaseRow EXCEPT !.id = Text(T_57150), !.year = Text(T_inf)],
          [BaseRow EXCEPT !.id = Num(57150 * Scale), !.year = NaN],
          [BaseRow EXCEPT !.id = Text(T_57150), !.reclat = Num(95 * Scale)]}
    \cup {[BaseRow EXCEPT !.reclat = c] : c \in LatCells}
    \cup {[BaseRow EXCEPT !.reclong = c] : c \in LongCells}
    \cup {[BaseRow EXCEPT !.reclat = Num(90 * Scale), !.reclong = Num(-180 * Scale)],
          [BaseRow EXCEPT !.reclat = Num(95 * Scale), !.reclong = Num(200 * Scale)]}
    \cup {[BaseRow EXCEPT !.mass = c] : c \in MassCells}
    \cup {[BaseRow EXCEPT !.recclass = c] : c \in ClassCells}
    \cup {[BaseRow EXCEPT !.name = NaN, !.fall = NaN, !.recclass = NaN],
          [BaseRow EXCEPT !.name = NaN]}

MaxRows == 2

\* the RangeIndex read_csv gives a table
WithIndex(rows) == [i \in DOMAIN rows |-> SetCol(rows[i], "idx", i - 1)]

InitClean ==
    /\ \E n \in 0..MaxRows : \E t \in [1..n -> RawRows] : raw = WithIndex(t)
    /\ pc = "start"
    /\ out = <<>>
    /\ LoadIdle

CleanDf ==
    /\ pc = "start"
    /\ \E r \in {clean_df(raw)} :
          /\ out' = r.df
          /\ pc' = IF r.ok THEN "returned" ELSE "raised"
    /\ UNCHANGED raw
    /\ UNCHANGED loadVars

NextClean == CleanDf

SpecClean == InitClean /\ [][NextClean]_vars

----------------------------------------------------------------------------
(* The application: script runs, the Refresh Data button, and the sources *)

T_2099 == <<"2","0","9","9">>

File(rows) == [ok |-> TRUE, df |-> WithIndex(rows)]

\* the five-row table: negative mass, year 2099, latitude 200, a corrected
\* id, a valid H5 row
FiveRows == <<[BaseRow EXCEPT !.mass = Num(-1 * Scale)],
              [BaseRow EXCEPT !.year = Text(T_2099)],
              [BaseRow EXCEPT !.reclat = Num(200 * Scale)],
              [BaseRow EXCEPT !.id = Num(57150 * Scale), !.year = Num(2101 * Scale)],
              BaseRow>>

SourceFiles == {Unreadable,
                File(<<BaseRow>>),
                File(FiveRows),
                File(<<[BaseRow EXCEPT !.recclass = NaN]>>),
                File(<<BaseRow, [BaseRow EXCEPT !.year = Text(T_inf)]>>)}

\* calls of load_data() followed between two clears
MaxCalls == 3

Init ==
    /\ raw = <<>>
    /\ pc = "start"
    /\ out = <<>>
    /\ localExists \in BOOLEAN
    /\ localContent \in (IF localExists THEN SourceFiles ELSE {Unreadable})
    /\ remoteContent \in SourceFiles
    /\ cache = NoResult
    /\ ret = NoResult
    /\ first = NoResult
    /\ calls = 0
    /\ runs = 0
    /\ reads = <<>>
    /\ rerunPending = FALSE

\* a script run without the button: df, data_source = load_data()
ScriptRun ==
    /\ calls < MaxCalls
    /\ \E c \in {CachedCall} :
          /\ ret' = c.value
          /\ cache' = c.value
          /\ reads' = c.reads
          /\ runs' = IF c.ran THEN runs + 1 ELSE runs
          /\ first' = IF calls = 0 THEN c.value ELSE first
    /\ calls' = calls + 1
    /\ rerunPending' = FALSE
    /\ UNCHANGED <<localExists, localContent, remoteContent>>
    /\ UNCHANGED cleanVars

\* a script run with Refresh Data pressed: load_data(), then
\* load_data.clear() and st.experimental_rerun()
RefreshClick ==
    /\ ret.has
    /\ ~rerunPending
    /\ \E c \in {CachedCall} :
          /\ ret' = c.value
          /\ reads' = c.reads
    /\ cache' = NoResult
    /\ first' = NoResult
    /\ calls' = 0
    /\ runs' = 0
    /\ rerunPending' = TRUE
    /\ UNCHANGED <<localExists, localContent, remoteContent>>
    /\ UNCHANGED cleanVars

\* the environment: Meteorite_Landings.csv is written or removed next to the
\* script, the remote file changes or becomes unreachable
WriteLocalFile ==
    /\ \E c \in SourceFiles : localContent' = c /\ (c # localContent \/ ~localExists)
    /\ localExists' = TRUE
    /\ UNCHANGED <<remoteContent, cache, ret, first, calls, runs, reads, rerunPending>>
    /\ UNCHANGED cleanVars

RemoveLocalFile ==
    /\ localExists
    /\ localExists' = FALSE
    /\ localContent' = Unreadable
    /\ UNCHANGED <<remoteContent, cache, ret, first, calls, runs, reads, rerunPending>>
    /\ UNCHANGED cleanVars

RemoteChange ==
    /\ \E c \in SourceFiles \ {remoteContent} : remoteContent' = c
    /\ UNCHANGED <<localExists, localContent, cache, ret, first, calls, runs, reads, rerunPending>>
    /\ UNCHANGED cleanVars

Next ==
    \/ ScriptRun
    \/ RefreshClick
    \/ WriteLocalFile
    \/ RemoveLocalFile
    \/ RemoteChange

Spec == Init /\ [][Next]_vars

----------------------------------------------------------------------------
(* Properties of add_category (SpecClassify) *)

\* the text add_category matches: the single raw row's recclass, "" if missing
ClassifiedText == fillna(raw[1].recclass, <<>>).s

\* C3: the category is fixed by priority: Stony-iron if the stony-iron
\* pattern matches, else Iron if the iron pattern matches, else Stony if the
\* stony pattern matches, else Other.
C3_CategoryByPriority ==
    pc = "returned" =>
        /\ Len(out) = 1
        /\ out[1].category =
              IF stony_iron_re(ClassifiedText) THEN "Stony-iron"
              ELSE IF iron_re(ClassifiedText) THEN "Iron"
              ELSE IF stony_re(ClassifiedText) THEN "Stony"
              ELSE "Other"

\* a text matching all three patterns has been classified Stony-iron
C3_Witness ==
    /\ pc = "returned"
    /\ stony_re(ClassifiedText)
    /\ iron_re(ClassifiedText)
    /\ stony_iron_re(ClassifiedText)
    /\ out[1].category = "Stony-iron"

\* the documented stony notation: a group code followed only by grade
\* characters (C with a digit may end in -ung)
GroupCodeHeads == CarbonaceousHeads \cup CDigitHeads \cup LetterHeads \cup {<<"c">>}
IsGroupCode(s) ==
    \E h \in GroupCodeHeads :
        /\ LiteralAt(s, 1, h)
        /\ \/ (Len(s) + 1) \in GradeRunEnds(s, Len(h) + 1)
           \/ /\ h \in CDigitHeads
              /\ \E j \in GradeRunEnds(s, Len(h) + 1) :
                    LiteralAt(s, j, W_ung) /\ j + Len(W_ung) = Len(s) + 1

MatchesDocumentedPattern(s) ==
    \/ IsGroupCode(s)
    \/ \E w \in GroupWords : ContainsWord(s, w)
    \/ \E w \in StonyKeywords : Contains(s, w)
    \/ \E w \in IronWords \cup StonyIronWords : ContainsWord(s, w)

\* C10: a text matching none of the documented patterns is categorized Other,
\* also when it begins with a group letter and continues with other letters.
C10_UndocumentedIsOther ==
    (pc = "returned" /\ ~MatchesDocumentedPattern(ClassifiedText))
        => out[1].category = "Other"

----------------------------------------------------------------------------
(* Properties of clean_df (SpecClean) *)

Categories == {"Stony", "Iron", "Stony-iron", "Other"}

\* the raw row an output row comes from (the index label survives filtering)
RawOf(r) == raw[r.idx + 1]

\* C1: every row returned by clean_df has non-missing numeric year, mass,
\* latitude and longitude, mass > 0, latitude in [-90, 90], longitude in
\* [-180, 180] and a category among Stony, Iron, Stony-iron, Other.
C1_CleanRecordInvariants ==
    pc = "returned" =>
        \A i \in DOMAIN out :
            /\ out[i].year.t = "int"
            /\ out[i].mass.t \in {"num", "inf"}
            /\ (out[i].mass.t = "num" => out[i].mass.v > 0)
            /\ out[i].reclat.t = "num"
            /\ out[i].reclat.v >= -90 * Scale /\ out[i].reclat.v <= 90 * Scale
            /\ out[i].reclong.t = "num"
            /\ out[i].reclong.v >= -180 * Scale /\ out[i].reclong.v <= 180 * Scale
            /\ out[i].category \in Categories

\* clean_df returned a table that kept a row and dropped a row whose
\* longitude is out of range
C1_Witness ==
    /\ pc = "returned"
    /\ Len(out) >= 1
    /\ \E i \in DOMAIN raw :
          /\ raw[i].reclong = Num(200 * Scale)
          /\ \A j \in DOMAIN out : out[j].idx # i - 1

\* the raw id, compared as a number after coercion, is a key of year_fixes
IsFixKey(r, k) == k \in DOMAIN year_fixes /\ to_numeric(r.id) = Num(k * Scale)

\* C4 as stated: in the table clean_df returns, a row whose id is a key has
\* the mapped year, and every other row keeps its original year.
C4_FixedOrOriginalYear ==
    pc = "returned" =>
        \A i \in DOMAIN out :
            /\ \A k \in DOMAIN year_fixes :
                  IsFixKey(RawOf(out[i]), k) => out[i].year = IntCell(year_fixes[k])
            /\ (~\E k \in DOMAIN year_fixes : IsFixKey(RawOf(out[i]), k))
                  => Num(out[i].year.v * Scale) = to_numeric(RawOf(out[i]).year)

\* C4 amended: in the table clean_df returns, a row whose id is a key has
\* the mapped year, and every other row keeps its original year truncated
\* toward zero to an integer.
C4_FixedOrTruncatedYear ==
    pc = "returned" =>
        \A i \in DOMAIN out :
            /\ \A k \in DOMAIN year_fixes :
                  IsFixKey(RawOf(out[i]), k) => out[i].year = IntCell(year_fixes[k])
            /\ (~\E k \in DOMAIN year_fixes : IsFixKey(RawOf(out[i]), k))
                  => LET y == to_numeric(RawOf(out[i]).year)
                     IN  /\ y.t = "num"
                         /\ out[i].year.t = "int"
                         /\ y.v >= 0 =>
                               /\ out[i].year.v * Scale <= y.v
                               /\ y.v < (out[i].year.v + 1) * Scale
                         /\ y.v < 0 =>
                               /\ (out[i].year.v - 1) * Scale < y.v
                               /\ y.v <= out[i].year.v * Scale

\* a row whose id was the text "57150" and whose year was not 2010 came out
\* with year 2010, next to a row with another id and a fractional year
C4_Witness ==
    /\ pc = "returned"
    /\ \E i \in DOMAIN out :
          /\ RawOf(out[i]).id = Text(T_57150)
          /\ to_numeric(RawOf(out[i]).year) # Num(2010 * Scale)
          /\ out[i].year = IntCell(2010)
    /\ \E i \in DOMAIN out :
          /\ RawOf(out[i]).id = Num(1 * Scale)
          /\ RawOf(out[i]).year = Num(20105)

\* C7: in the table clean_df returns, a missing recclass comes out as
\* "Unclassified" with category Other, a missing name as "Unknown", a missing
\* fall as "Unknown"; values that are present are left as they were.
C7_MissingFieldDefaults ==
    pc = "returned" =>
        \A i \in DOMAIN out :
            LET r == RawOf(out[i])
            IN  /\ r.recclass = NaN =>
                      (out[i].recclass = Text(T_Unclassified) /\ out[i].category = "Other")
                /\ r.recclass # NaN => out[i].recclass = r.recclass
                /\ out[i].name = (IF r.name = NaN THEN Text(T_Unknown) ELSE r.name)
                /\ out[i].fall = (IF r.fall = NaN THEN Text(T_Unknown) ELSE r.fall)

\* a row with recclass, name and fall all missing is in the output
C7_Witness ==
    /\ pc = "returned"
    /\ \E i \in DOMAIN out :
          /\ RawOf(out[i]).recclass = NaN
          /\ RawOf(out[i]).name = NaN
          /\ RawOf(out[i]).fall = NaN

\* a column of the row fails numeric coercion: a text that parses to NaN
FailsCoercion(cell) == cell.t = "text" /\ to_numeric(cell) = NaN

\* the row passes every filter of clean_df
PassesFilters(r) ==
    /\ to_numeric(r.year).t # "nan"
    /\ Gt(to_numeric(r.mass), 0)
    /\ between(to_numeric(r.reclat), -90, 90)
    /\ between(to_numeric(r.reclong), -180, 180)

InOutput(i) == \E j \in DOMAIN out : out[j].idx = i - 1

\* C8: clean_df never raises; a row in which year, mass, reclat or reclong
\* fails coercion is only excluded, the other valid rows are returned, and a
\* row whose id fails coercion is kept.
C8_CleanNeverRaises ==
    pc # "start" =>
        /\ pc = "returned"
        /\ \A i \in DOMAIN raw :
              /\ (\E c \in {"year", "mass", "reclat", "reclong"} : FailsCoercion(raw[i][c]))
                    => ~InOutput(i)
              /\ PassesFilters(raw[i]) => InOutput(i)

\* C9: when clean_df returns, an otherwise valid row is in the output iff
\* its latitude is in [-90, 90] and its longitude in [-180, 180], bounds
\* included, and the retained rows keep their input order.
C9_CoordinateFilter ==
    pc = "returned" =>
        /\ \A i \in DOMAIN raw :
              (to_numeric(raw[i].year).t # "nan" /\ Gt(to_numeric(raw[i].mass), 0)) =>
                 (InOutput(i) <=>
                    LET lat == to_numeric(raw[i].reclat)
                        lon == to_numeric(raw[i].reclong)
                    IN  /\ lat.t = "num" /\ lat.v >= -90 * Scale /\ lat.v <= 90 * Scale
                        /\ lon.t = "num" /\ lon.v >= -180 * Scale /\ lon.v <= 180 * Scale)
        /\ \A j, k \in DOMAIN out : j < k => out[j].idx < out[k].idx

\* a row at latitude 90 and longitude -180 is retained after a row at
\* latitude 95 was dropped
C9_Witness ==
    /\ pc = "returned"
    /\ Len(raw) = 2
    /\ raw[1].reclat = Num(95 * Scale)
    /\ raw[2].reclat = Num(90 * Scale)
    /\ raw[2].reclong = Num(-180 * Scale)
    /\ Len(out) = 1
    /\ out[1].idx = 1

----------------------------------------------------------------------------
(* Properties of the loader and its cache (Spec) *)

CutoffYear == 2025

\* C2: every row of the table load_data returns has an integer year <= 2025.
C2_LoadedYearsWithinCutoff ==
    ret.has =>
        \A i \in DOMAIN ret.df :
            ret.df[i].year.t = "int" /\ ret.df[i].year.v <= CutoffYear

\* what the source picked by the existence of the local file holds
PickedContent == IF localExists THEN localContent ELSE remoteContent

\* C5: an execution of load_data reads exactly one source, the local file
\* when it exists (also when reading or cleaning it fails) and the remote URL
\* otherwise; on success it returns the cleaned table labelled by the source
\* read, on any failure the empty table labelled "Unavailable".
C5_OneSourcePerRun ==
    [][runs' = runs + 1 =>
          /\ reads' = <<IF localExists THEN "LOCAL_FILE" ELSE "DATA_URL">>
          /\ IF PickedContent.ok /\ clean_df(PickedContent.df).ok
             THEN ret' = Result(clean_df(PickedContent.df).df,
                                IF localExists THEN "Local CSV" ELSE "NASA Open Data")
             ELSE ret' = Result(<<>>, "Unavailable")]_vars

\* load_data ran with the local file present but unreadable and the remote
\* readable: only the local file was read, the result is "Unavailable"
C5_Witness ==
    /\ runs = 1
    /\ ~rerunPending
    /\ localExists /\ ~localContent.ok
    /\ remoteContent.ok /\ clean_df(remoteContent.df).ok
    /\ reads = <<"LOCAL_FILE">>
    /\ ret = Result(<<>>, "Unavailable")

\* C6: between two refreshes the pipeline runs at most once and every access
\* returns what the first one returned; the first access after a refresh
\* runs the pipeline again on the sources as they are then.
C6_CachedUntilRefresh ==
    /\ [](runs <= 1)
    /\ []((calls >= 1) => (first.has /\ ret = first))
    /\ [][(rerunPending /\ ~rerunPending') =>
             /\ runs' = 1
             /\ ret' = load_data(localExists, localContent, remoteContent).value]_vars

\* an access returned the first result although the sources have changed
\* since: a fresh run would return something else
C6_Witness ==
    /\ calls >= 2
    /\ ~rerunPending
    /\ runs = 1
    /\ ret = first
    /\ ret.source = "Unavailable"
    /\ load_data(localExists, localContent, remoteContent).value.source = "Local CSV"

====
